---- MODULE Spec2Model ----
(***************************************************************************)
(* Model of the outline editor of src/src/components/App.tsx: the Data     *)
(* snapshot held by useReducer, the reducer with its five commands, and    *)
(* the recursive updateTree traversal the commands run inside immer's      *)
(* produce.                                                                *)
(*                                                                         *)
(* A Tree is a record [id, text] with an optional field children (a        *)
(* sequence of Trees), as in `type Tree = {id; text; children?: Tree[]}`.  *)
(* The reducer's recipe mutates draft objects in place while forEach is    *)
(* walking them, so the recipe is run on a heap of node objects and array  *)
(* objects with addresses, and the result is read back as a value.         *)
(*                                                                         *)
(* Also modelled: the spread-based rename editor of src/unnamed/part_000   *)
(* (updateTreeInner on the same heap), the Copy button with the text       *)
(* JSON.stringify writes, and the texts App renders.                       *)
(***************************************************************************)
EXTENDS Integers, Sequences, FiniteSets, TLC

(* ------------------------------ bounds -------------------------------- *)

\* Math.random() * 1000 * 1000 takes the values 0..MaxRandom here.
MaxRandom == 2
\* Date.now() takes the values 0..MaxNow here.
MaxNow == 1
\* ADDED is not dispatched once the tree holds this many nodes.
MaxNodes == 3
\* The largest snapshot reducer is first applied to.
MaxInitNodes == 4

Randoms == 0..MaxRandom
Nows == 0..MaxNow

\* The texts a user types into an input field.
Texts == {"", "a"}

(* ------------------------------ data ---------------------------------- *)

VERSION == "0.1.0"

\* generateId: `${Math.random() * 1000 * 1000 + Date.now()}`; the template
\* string of a number is injective, so the id is modelled by the number.
generateId(random, now) == random + now

\* Every value generateId can return.
Ids == {generateId(r, n) : r \in Randoms, n \in Nows}

\* createTree(text) with children left undefined: a leaf without the field.
createTree(id, text) == [id |-> id, text |-> text]

\* initialData, given the four ids its generateId calls returned.
initialData(i0, i1, i2, i3) ==
  [version |-> VERSION,
   tree |-> [id |-> i0, text |-> "parent",
             children |-> << [id |-> i1, text |-> "child-1"],
                             [id |-> i2, text |-> "child-2"],
                             [id |-> i3, text |-> "child-3"] >>]]

ActionTypes == {"TEXT_CHANGED", "MOVE_UP", "MOVE_DOWN", "ADDED", "REMOVED"}

(* --------------------------- tree helpers ----------------------------- *)

HasChildren(t) == "children" \in DOMAIN t

\* (tree.children || [])
ChildrenOf(t) == IF HasChildren(t) THEN t.children ELSE << >>

RECURSIVE Size(_)
Size(t) ==
  LET c == ChildrenOf(t)
      sum[k \in 0..Len(c)] == IF k = 0 THEN 0 ELSE sum[k - 1] + Size(c[k])
  IN 1 + sum[Len(c)]

\* The ids of the tree in pre-order, with repetitions.
RECURSIVE IdSeq(_)
IdSeq(t) ==
  LET c == ChildrenOf(t)
      cat[k \in 0..Len(c)] == IF k = 0 THEN << >> ELSE cat[k - 1] \o IdSeq(c[k])
  IN <<t.id>> \o cat[Len(c)]

IdsOf(t) == {IdSeq(t)[k] : k \in 1..Size(t)}

(* ------------------------------ heap ---------------------------------- *)

\* The draft objects of one produce call. nodes[a] is the node object at
\* address a, its field children the address of an array object or 0 for
\* undefined; arrays[b] is the array object at address b, a sequence of
\* node addresses; gens holds the values the coming generateId calls return.
EmptyHeap(gens) == [nodes |-> << >>, arrays |-> << >>, gens |-> gens]

RECURSIVE Alloc(_, _)
RECURSIVE AllocEach(_, _, _, _)

\* The objects of tree t added to heap h: [h |-> the heap, a |-> t's address].
Alloc(h, t) ==
  IF ~HasChildren(t)
  THEN [h |-> [h EXCEPT !.nodes = Append(@, [id |-> t.id, text |-> t.text, children |-> 0])],
        a |-> Len(h.nodes) + 1]
  ELSE LET r == AllocEach(h, t.children, 1, << >>)
           h1 == [r.h EXCEPT !.arrays = Append(@, r.as)]
       IN [h |-> [h1 EXCEPT !.nodes = Append(@, [id |-> t.id, text |-> t.text,
                                                  children |-> Len(h1.arrays)])],
           a |-> Len(h1.nodes) + 1]

AllocEach(h, ts, k, as) ==
  IF k > Len(ts) THEN [h |-> h, as |-> as]
  ELSE LET r == Alloc(h, ts[k])
       IN AllocEach(r.h, ts, k + 1, Append(as, r.a))

\* The value of the node object at address a.
RECURSIVE ToTree(_, _)
ToTree(h, a) ==
  LET n == h.nodes[a] IN
  IF n.children = 0
  THEN [id |-> n.id, text |-> n.text]
  ELSE LET arr == h.arrays[n.children]
       IN [id |-> n.id, text |-> n.text,
           children |-> [k \in 1..Len(arr) |-> ToTree(h, arr[k])]]

\* children.findIndex(e => e.id === tree.id), 0-based, -1 when none matches.
findIndex(h, arr, id) ==
  LET hits == {k \in 1..Len(arr) : h.nodes[arr[k]].id = id}
  IN IF hits = {} THEN -1
     ELSE (CHOOSE k \in hits : \A j \in hits : k <= j) - 1

\* children.slice(from, to), 0-based, to exclusive, both clamped.
slice(arr, from, to) ==
  LET lo == IF from < 0 THEN 0 ELSE from
      hi == IF to > Len(arr) THEN Len(arr) ELSE to
  IN IF hi <= lo THEN << >> ELSE SubSeq(arr, lo + 1, hi)

\* parent.children = arr: a new array object, the old one is left as it was.
SetChildren(h, parent, arr) ==
  LET h1 == [h EXCEPT !.arrays = Append(@, arr)]
  IN [h1 EXCEPT !.nodes[parent].children = Len(h1.arrays)]

(* ------------------- the update functions of reducer ------------------ *)

\* TextChangedFn as it would be if the renamed node were rebuilt from its id
\* and text alone, losing its children.
TextChangedFnDropsChildren(h, tree, text) ==
  [h EXCEPT !.nodes[tree].text = text, !.nodes[tree].children = 0]

\* TextChangedFn as it would be if typing the text a node already has
\* cleared it.
TextChangedFnToggle(h, tree, text) ==
  [h EXCEPT !.nodes[tree].text = IF @ = text THEN "" ELSE text]

\* TEXT_CHANGED: tree => { tree.text = text }
TextChangedFn(h, tree, text) == [h EXCEPT !.nodes[tree].text = text]

\* MoveUpFn as it would be if it moved tree to the front of its siblings.
MoveUpFnToFront(h, tree, parent) ==
  IF parent = 0 THEN h
  ELSE IF h.nodes[parent].children = 0 THEN h
  ELSE LET children == h.arrays[h.nodes[parent].children]
           index == findIndex(h, children, h.nodes[tree].id)
       IN IF index <= 0 THEN h
          ELSE SetChildren(h, parent,
                 << tree >>
                 \o slice(children, 0, index)
                 \o slice(children, index + 1, Len(children)))

\* MOVE_UP: swap tree with the sibling before it in parent.children.
MoveUpFn(h, tree, parent) ==
  IF parent = 0 THEN h
  ELSE IF h.nodes[parent].children = 0 THEN h
  ELSE LET children == h.arrays[h.nodes[parent].children]
           index == findIndex(h, children, h.nodes[tree].id)
       IN IF index <= 0 THEN h
          ELSE SetChildren(h, parent,
                 slice(children, 0, index - 1)
                 \o << tree, children[(index - 1) + 1] >>
                 \o slice(children, index + 1, Len(children)))

\* MoveDownFn as it would be if it moved tree behind all its siblings.
MoveDownFnToEnd(h, tree, parent) ==
  IF parent = 0 THEN h
  ELSE IF h.nodes[parent].children = 0 THEN h
  ELSE LET children == h.arrays[h.nodes[parent].children]
           index == findIndex(h, children, h.nodes[tree].id)
       IN IF index < 0 \/ index = Len(children) - 1 THEN h
          ELSE SetChildren(h, parent,
                 slice(children, 0, index)
                 \o slice(children, index + 1, Len(children))
                 \o << tree >>)

\* MoveDownFn as it would be with slice(index + 1) for slice(index + 2): the
\* sibling that moved up is listed a second time after tree.
MoveDownFnKeepsNext(h, tree, parent) ==
  IF parent = 0 THEN h
  ELSE IF h.nodes[parent].children = 0 THEN h
  ELSE LET children == h.arrays[h.nodes[parent].children]
           index == findIndex(h, children, h.nodes[tree].id)
       IN IF index < 0 \/ index = Len(children) - 1 THEN h
          ELSE SetChildren(h, parent,
                 slice(children, 0, index)
                 \o << children[(index + 1) + 1], tree >>
                 \o slice(children, index + 1, Len(children)))

\* MOVE_DOWN: swap tree with the sibling after it in parent.children.
MoveDownFn(h, tree, parent) ==
  IF parent = 0 THEN h
  ELSE IF h.nodes[parent].children = 0 THEN h
  ELSE LET children == h.arrays[h.nodes[parent].children]
           index == findIndex(h, children, h.nodes[tree].id)
       IN IF index < 0 \/ index = Len(children) - 1 THEN h
          ELSE SetChildren(h, parent,
                 slice(children, 0, index)
                 \o << children[(index + 1) + 1], tree >>
                 \o slice(children, index + 2, Len(children)))

\* AddedFn as it would be if it pushed the new leaf to the end of
\* parent.children.
AddedFnAtEnd(h, tree, parent) ==
  IF parent = 0 THEN h
  ELSE IF h.nodes[parent].children = 0 THEN h
  ELSE LET children == h.arrays[h.nodes[parent].children]
           index == findIndex(h, children, h.nodes[tree].id)
       IN IF index < 0 THEN h
          ELSE LET t == createTree(Head(h.gens), "")
                   h1 == [h EXCEPT !.nodes = Append(@, [id |-> t.id, text |-> t.text,
                                                        children |-> 0]),
                                   !.gens = Tail(@)]
                   newTree == Len(h1.nodes)
               IN SetChildren(h1, parent, children \o << newTree >>)

\* AddedFn as it would be if it pushed the new leaf to the children of
\* tree itself; a call that finds no generated id left adds nothing.
AddedFnAsChild(h, tree, parent) ==
  IF parent = 0 THEN h
  ELSE IF h.nodes[parent].children = 0 THEN h
  ELSE LET children == h.arrays[h.nodes[parent].children]
           index == findIndex(h, children, h.nodes[tree].id)
       IN IF index < 0 \/ h.gens = << >> THEN h
          ELSE LET t == createTree(Head(h.gens), "")
                   h1 == [h EXCEPT !.nodes = Append(@, [id |-> t.id, text |-> t.text,
                                                        children |-> 0]),
                                   !.gens = Tail(@)]
                   newTree == Len(h1.nodes)
                   own == IF h.nodes[tree].children = 0 THEN << >>
                          ELSE h.arrays[h.nodes[tree].children]
               IN SetChildren(h1, tree, own \o << newTree >>)

\* AddedFn as it would be without the return on a missing parent, the root
\* getting the new leaf as its last child; the leaf's id is the generated
\* one, or generateId(0, 0) when the caller counted on no call.
AddedFnUnderRoot(h, tree, parent) ==
  LET t == createTree(IF h.gens = << >> THEN generateId(0, 0) ELSE Head(h.gens), "")
      h1 == [h EXCEPT !.nodes = Append(@, [id |-> t.id, text |-> t.text, children |-> 0]),
                      !.gens = IF @ = << >> THEN @ ELSE Tail(@)]
      newTree == Len(h1.nodes)
  IN IF parent = 0
     THEN SetChildren(h1, tree,
            (IF h.nodes[tree].children = 0 THEN << >>
             ELSE h.arrays[h.nodes[tree].children]) \o << newTree >>)
     ELSE IF h.nodes[parent].children = 0 THEN h
     ELSE LET children == h.arrays[h.nodes[parent].children]
              index == findIndex(h, children, h.nodes[tree].id)
          IN IF index < 0 THEN h
             ELSE SetChildren(h1, parent,
                    slice(children, 0, index + 1)
                    \o << newTree >>
                    \o slice(children, index + 1, Len(children)))

\* ADDED: a new empty leaf right after tree in parent.children.
AddedFn(h, tree, parent) ==
  IF parent = 0 THEN h
  ELSE IF h.nodes[parent].children = 0 THEN h
  ELSE LET children == h.arrays[h.nodes[parent].children]
           index == findIndex(h, children, h.nodes[tree].id)
       IN IF index < 0 THEN h
          ELSE LET t == createTree(Head(h.gens), "")
                   h1 == [h EXCEPT !.nodes = Append(@, [id |-> t.id, text |-> t.text,
                                                        children |-> 0]),
                                   !.gens = Tail(@)]
                   newTree == Len(h1.nodes)
               IN SetChildren(h1, parent,
                    slice(children, 0, index + 1)
                    \o << newTree >>
                    \o slice(children, index + 1, Len(children)))

\* RemovedFn as it would be with splice(index + 1, 1): the sibling after
\* tree goes instead of tree.
RemovedFnNext(h, tree, parent) ==
  IF parent = 0 THEN h
  ELSE IF h.nodes[parent].children = 0 THEN h
  ELSE LET c == h.nodes[parent].children
           children == h.arrays[c]
           index == findIndex(h, children, h.nodes[tree].id)
       IN IF index < 0 THEN h
          ELSE [h EXCEPT !.arrays[c] =
                  slice(children, 0, index + 1) \o slice(children, index + 2, Len(children))]

\* RemovedFn as it would be if a node without parent, the root, were
\* removed by emptying it.
RemovedFnEmptiesRoot(h, tree, parent) ==
  IF parent = 0
  THEN IF h.nodes[tree].children = 0 THEN h
       ELSE [h EXCEPT !.arrays[h.nodes[tree].children] = << >>]
  ELSE IF h.nodes[parent].children = 0 THEN h
  ELSE LET c == h.nodes[parent].children
           children == h.arrays[c]
           index == findIndex(h, children, h.nodes[tree].id)
       IN IF index < 0 THEN h
          ELSE [h EXCEPT !.arrays[c] =
                  slice(children, 0, index) \o slice(children, index + 1, Len(children))]

\* REMOVED: children.splice(index, 1), in place on the array being walked.
RemovedFn(h, tree, parent) ==
  IF parent = 0 THEN h
  ELSE IF h.nodes[parent].children = 0 THEN h
  ELSE LET c == h.nodes[parent].children
           children == h.arrays[c]
           index == findIndex(h, children, h.nodes[tree].id)
       IN IF index < 0 THEN h
          ELSE [h EXCEPT !.arrays[c] =
                  slice(children, 0, index) \o slice(children, index + 1, Len(children))]

\* The function reducer hands to updateTree for this action.
updateFn(h, action, tree, parent) ==
  CASE action.type = "TEXT_CHANGED" -> TextChangedFn(h, tree, action.payload.text)
    [] action.type = "MOVE_UP" -> MoveUpFn(h, tree, parent)
    [] action.type = "MOVE_DOWN" -> MoveDownFn(h, tree, parent)
    [] action.type = "ADDED" -> AddedFn(h, tree, parent)
    [] action.type = "REMOVED" -> RemovedFn(h, tree, parent)

RECURSIVE updateTree(_, _, _, _)
RECURSIVE forEach(_, _, _, _, _, _)

\* updateTree as it would be without the test tree.id === id.
updateTreeAnyId(h, tree, action, parent) ==
  LET h1 == updateFn(h, action, tree, parent)
      c == h1.nodes[tree].children
  IN IF c = 0 THEN h1
     ELSE forEach(h1, c, tree, action, 0, Len(h1.arrays[c]))

\* updateTree(tree, id, updateFn, parent): parent is 0 for undefined.
updateTree(h, tree, action, parent) ==
  LET h1 == IF h.nodes[tree].id = action.payload.id
            THEN updateFn(h, action, tree, parent)
            ELSE h
      c == h1.nodes[tree].children
  IN IF c = 0 THEN h1
     ELSE forEach(h1, c, tree, action, 0, Len(h1.arrays[c]))

\* Array.prototype.forEach on the array object arr: the length is read once,
\* the element at index k is read when its turn comes, and an index the
\* array no longer has is skipped.
forEach(h, arr, tree, action, k, len) ==
  IF k >= len THEN h
  ELSE IF k < Len(h.arrays[arr])
       THEN forEach(updateTree(h, h.arrays[arr][k + 1], action, tree),
                    arr, tree, action, k + 1, len)
       ELSE forEach(h, arr, tree, action, k + 1, len)

\* reducer(state, action), with gens the values that the generateId calls of
\* this run return, in call order.
reducer(state, action, gens) ==
  LET r == Alloc(EmptyHeap(gens), state.tree)
      h == updateTree(r.h, r.a, action, 0)
  IN [version |-> state.version, tree |-> ToTree(h, r.a)]

RECURSIVE renameUpdateTree(_, _, _, _)
RECURSIVE renameForEach(_, _, _, _, _, _)

\* updateTree(tree, id, updateFn) of the rename-only editor, with the one
\* updateFn its reducer passes: tree => { tree.text = text }.
renameUpdateTree(h, tree, id, text) ==
  LET h1 == IF h.nodes[tree].id = id THEN TextChangedFn(h, tree, text) ELSE h
      c == h1.nodes[tree].children
  IN IF c = 0 THEN h1
     ELSE renameForEach(h1, c, id, text, 0, Len(h1.arrays[c]))

renameForEach(h, arr, id, text, k, len) ==
  IF k >= len THEN h
  ELSE IF k < Len(h.arrays[arr])
       THEN renameForEach(renameUpdateTree(h, h.arrays[arr][k + 1], id, text),
                          arr, id, text, k + 1, len)
       ELSE renameForEach(h, arr, id, text, k + 1, len)

\* reducer(state, action) of the rename-only editor, TEXT_CHANGED its only
\* action.
renameReducer(state, action) ==
  LET r == Alloc(EmptyHeap(<< >>), state.tree)
      h == renameUpdateTree(r.h, r.a, action.payload.id, action.payload.text)
  IN [version |-> state.version, tree |-> ToTree(h, r.a)]

\* produce(state, recipe) of reducer with the objects of state kept in view:
\* base holds the node and array objects of state.tree, h is the heap after
\* the recipe ran on their drafts (the objects behind base's), a the address
\* of the draft of state.tree.
produce(state, action, gens) ==
  LET base == Alloc(EmptyHeap(gens), state.tree)
      draft == Alloc(base.h, state.tree)
  IN [base |-> base,
      h |-> updateTree(draft.h, draft.a, action, 0),
      a |-> draft.a]

(* -------------------- the spread-based rename editor ------------------ *)

\* handleChange's updateFn as it would be if it assigned the text to the
\* node it is given: (e) => { e.text = text; return e }.
spreadUpdateFnInPlace(h, e, text) ==
  [h |-> [h EXCEPT !.nodes[e].text = text], a |-> e]

\* handleChange's updateFn, (e) => ({ ...e, text }): a new node object with
\* the fields of e, children the same array object, and the new text.
spreadUpdateFn(h, e, text) ==
  [h |-> [h EXCEPT !.nodes = Append(@, [h.nodes[e] EXCEPT !.text = text])],
   a |-> Len(h.nodes) + 1]

RECURSIVE updateTreeInner(_, _, _, _)
RECURSIVE map(_, _, _, _, _, _)

\* updateTreeInner(tree, id, updateFn) with handleChange's updateFn: the
\* node updateFn returns for a match, without a look at the match's
\* children, and otherwise { ...tree, children } with the mapped children.
updateTreeInner(h, tree, id, text) ==
  IF h.nodes[tree].id = id THEN spreadUpdateFn(h, tree, text)
  ELSE IF h.nodes[tree].children = 0
       THEN [h |-> [h EXCEPT !.nodes = Append(@, h.nodes[tree])],
             a |-> Len(h.nodes) + 1]
       ELSE LET r == map(h, h.nodes[tree].children, id, text, 1, << >>)
                h1 == [r.h EXCEPT !.arrays = Append(@, r.as)]
            IN [h |-> [h1 EXCEPT !.nodes =
                         Append(@, [h.nodes[tree] EXCEPT !.children = Len(h1.arrays)])],
                a |-> Len(h1.nodes) + 1]

\* tree.children.map(child => updateTreeInner(child, id, updateFn)): as is
\* the new array so far.
map(h, arr, id, text, k, as) ==
  IF k > Len(h.arrays[arr]) THEN [h |-> h, as |-> as]
  ELSE LET r == updateTreeInner(h, h.arrays[arr][k], id, text)
       IN map(r.h, arr, id, text, k + 1, Append(as, r.a))

\* updateTree(tree, updateFn) of the spread-based editor: the id looked for
\* is the id of the tree it is given.
spreadUpdateTree(h, tree, text) == updateTreeInner(h, tree, h.nodes[tree].id, text)

\* The address of the node at position p below the node at address a.
RECURSIVE AddrAt(_, _, _)
AddrAt(h, a, p) ==
  IF p = << >> THEN a
  ELSE AddrAt(h, h.arrays[h.nodes[a].children][Head(p)], Tail(p))

\* handleChange of the spread-based editor, called by the TreeView that
\* shows the node at position p of data.tree with that node as tree:
\* newTree = updateTree(tree, ...), newData = { ...data, tree: newTree }.
spreadHandleChange(state, p, text) ==
  LET r == Alloc(EmptyHeap(<< >>), state.tree)
      res == spreadUpdateTree(r.h, AddrAt(r.h, r.a, p), text)
  IN [version |-> state.version, tree |-> ToTree(res.h, res.a)]

(* ------------------------------ export -------------------------------- *)

\* A JSON text is the sequence of its lines; a line is its indentation and
\* its tokens, and a token is a punctuation mark, a property name or a
\* string literal.
Punct(c) == <<"punct", c>>
Key(k) == <<"key", k>>
Str(s) == <<"string", s>>
Line(indent, tokens) == [indent |-> indent, tokens |-> tokens]

\* lines with a comma at the end of the last one.
WithComma(lines) == [lines EXCEPT ![Len(lines)].tokens = Append(@, Punct(","))]

\* lines with "key": in front of the first one.
WithKey(key, lines) == [lines EXCEPT ![1].tokens = <<Key(key), Punct(":")>> \o @]

\* The lines of the members in parts, a comma after each but the last.
RECURSIVE Members(_)
Members(parts) ==
  IF parts = << >> THEN << >>
  ELSE IF Len(parts) = 1 THEN parts[1]
  ELSE WithComma(parts[1]) \o Members(Tail(parts))

RECURSIVE stringifyTreeOmitsEmpty(_, _)
RECURSIVE stringifyTree(_, _)
RECURSIVE stringifyArray(_, _)

\* stringifyTree as it would be if an empty children array were left out
\* like an undefined one.
stringifyTreeOmitsEmpty(t, indent) ==
  LET props == << <<Line(indent + 2, <<Key("id"), Punct(":"), Str(ToString(t.id))>>)>>,
                  <<Line(indent + 2, <<Key("text"), Punct(":"), Str(t.text)>>)>> >>
               \o (IF ChildrenOf(t) # << >>
                   THEN << WithKey("children", stringifyArray(t.children, indent + 2)) >>
                   ELSE << >>)
  IN <<Line(indent, <<Punct("{")>>)>> \o Members(props) \o <<Line(indent, <<Punct("}")>>)>>

\* JSON.stringify of a Tree at the given indentation, two more per level:
\* the properties in the order id, text, children, the id as the string it
\* is, a property whose value is undefined left out.
stringifyTree(t, indent) ==
  LET props == << <<Line(indent + 2, <<Key("id"), Punct(":"), Str(ToString(t.id))>>)>>,
                  <<Line(indent + 2, <<Key("text"), Punct(":"), Str(t.text)>>)>> >>
               \o (IF HasChildren(t)
                   THEN << WithKey("children", stringifyArray(t.children, indent + 2)) >>
                   ELSE << >>)
  IN <<Line(indent, <<Punct("{")>>)>> \o Members(props) \o <<Line(indent, <<Punct("}")>>)>>

\* JSON.stringify of a Tree[]: [] for the empty array, else an element per
\* group of lines.
stringifyArray(c, indent) ==
  IF c = << >> THEN <<Line(indent, <<Punct("["), Punct("]")>>)>>
  ELSE <<Line(indent, <<Punct("[")>>)>>
       \o Members([k \in 1..Len(c) |-> stringifyTree(c[k], indent + 2)])
       \o <<Line(indent, <<Punct("]")>>)>>

\* JSON.stringify(data, null, 2).
stringify(d) ==
  <<Line(0, <<Punct("{")>>)>>
  \o Members(<< <<Line(2, <<Key("version"), Punct(":"), Str(d.version)>>)>>,
                WithKey("tree", stringifyTree(d.tree, 2)) >>)
  \o <<Line(0, <<Punct("}")>>)>>

\* copyToClipboard(data): the text handed to navigator.clipboard.writeText.
copyToClipboard(d) == stringify(d)

\* The number of generateId calls reducer makes for ADDED(id): one for each
\* node below the root that carries the id.
Calls(state, id) ==
  Cardinality({k \in 2..Size(state.tree) : IdSeq(state.tree)[k] = id})

(* ------------------------------ state --------------------------------- *)

\* data: the Data snapshot useReducer holds for App.
\* captured: the data in the closure of handleCopy as of the last render.
\* written: the text the last step handed to navigator.clipboard.writeText,
\* the empty sequence when it handed none.
VARIABLES data, captured, written

vars == << data, captured, written >>

TextChanged(id, text) == [type |-> "TEXT_CHANGED", payload |-> [id |-> id, text |-> text]]
MoveUp(id) == [type |-> "MOVE_UP", payload |-> [id |-> id]]
MoveDown(id) == [type |-> "MOVE_DOWN", payload |-> [id |-> id]]
Added(id) == [type |-> "ADDED", payload |-> [id |-> id]]
Removed(id) == [type |-> "REMOVED", payload |-> [id |-> id]]

\* useCallback as it would be with the dependency list []: the closure of
\* the first render is kept.
useCallbackNoDeps(closure, dep) == closure

\* useCallback(() => copyToClipboard(data), [data]): the closure is made
\* anew, with the data of this render, when data is not what it captured.
useCallback(closure, dep) == IF dep # closure THEN dep ELSE closure

\* dispatch(action): useReducer replaces data by reducer(data, action) and
\* App renders again.
dispatch(action, gens) ==
  /\ data' = reducer(data, action, gens)
  /\ captured' = useCallback(captured, data')
  /\ written' = << >>

\* The handlers App passes to TreeView: each is called with the tree of a
\* rendered TreeView, a node of data.tree, and dispatches that node's id.
handleChange ==
  \E id \in IdsOf(data.tree), text \in Texts : dispatch(TextChanged(id, text), << >>)

handleMoveUp == \E id \in IdsOf(data.tree) : dispatch(MoveUp(id), << >>)

handleMoveDown == \E id \in IdsOf(data.tree) : dispatch(MoveDown(id), << >>)

handleAdd ==
  \E id \in IdsOf(data.tree) :
    /\ Size(data.tree) + Calls(data, id) <= MaxNodes
    /\ \E gens \in [1..Calls(data, id) -> Ids] : dispatch(Added(id), gens)

handleRemove == \E id \in IdsOf(data.tree) : dispatch(Removed(id), << >>)

\* The seed: initialData with the ids its four generateId calls returned.
Init ==
  /\ \E i0 \in Ids, i1 \in Ids, i2 \in Ids, i3 \in Ids :
       data = initialData(i0, i1, i2, i3)
  /\ captured = data
  /\ written = << >>

Next ==
  \/ handleChange
  \/ handleMoveUp
  \/ handleMoveDown
  \/ handleAdd
  \/ handleRemove

Spec == Init /\ [][Next]_vars

(* ------------------- reducer on arbitrary snapshots ------------------- *)

\* The shapes of n nodes in a row of sibling trees; a shape is the sequence
\* of its children's shapes.
RECURSIVE Forests(_)
Forests(n) ==
  IF n = 0 THEN {<< >>}
  ELSE UNION {{<<s>> \o f : s \in Forests(k - 1), f \in Forests(n - k)} : k \in 1..n}

RECURSIVE ShapeSize(_)
ShapeSize(s) ==
  LET sum[k \in 0..Len(s)] == IF k = 0 THEN 0 ELSE sum[k - 1] + ShapeSize(s[k])
  IN 1 + sum[Len(s)]

\* The tree of shape s whose nodes carry the ids first, first + 1, ... in
\* pre-order and the empty text; a node without children has no field.
RECURSIVE Labelled(_, _)
Labelled(s, first) ==
  LET at[k \in 1..Len(s)] ==
        IF k = 1 THEN first + 1 ELSE at[k - 1] + ShapeSize(s[k - 1])
  IN IF s = << >>
     THEN [id |-> first, text |-> ""]
     ELSE [id |-> first, text |-> "",
           children |-> [k \in 1..Len(s) |-> Labelled(s[k], at[k])]]

\* The snapshots reducer is applied to: every shape of at most MaxInitNodes
\* nodes.
Snapshots ==
  {[version |-> VERSION, tree |-> Labelled(s, 0)] :
     s \in UNION {Forests(n - 1) : n \in 1..MaxInitNodes}}

InitReducer ==
  /\ data \in Snapshots
  /\ captured = data
  /\ written = << >>

SpecReducer == InitReducer /\ [][Next]_vars

(* ------------------------- the Copy button ---------------------------- *)

\* handleCopy: the closure of the last render writes the data it captured.
handleCopy ==
  /\ written' = copyToClipboard(captured)
  /\ UNCHANGED << data, captured >>

\* The editor with its Copy button, started from the snapshots of
\* SpecReducer and from the seed with four different ids.
InitCopy ==
  /\ data \in Snapshots \cup {initialData(generateId(0, 0), generateId(1, 0),
                                          generateId(2, 0), generateId(2, 1))}
  /\ captured = data
  /\ written = << >>

NextCopy ==
  \/ handleChange
  \/ handleMoveUp
  \/ handleMoveDown
  \/ handleAdd
  \/ handleRemove
  \/ handleCopy

SpecCopy == InitCopy /\ [][NextCopy]_vars

(* --------------------- vocabulary of the properties ------------------- *)

UniqueIds(t) == Cardinality(IdsOf(t)) = Size(t)

\* The positions of the nodes of t: the child indices from the root down.
RECURSIVE Paths(_)
Paths(t) ==
  {<< >>} \cup UNION {{<<k>> \o p : p \in Paths(ChildrenOf(t)[k])} :
                        k \in 1..Len(ChildrenOf(t))}

RECURSIVE NodeAt(_, _)
NodeAt(t, p) == IF p = << >> THEN t ELSE NodeAt(t.children[Head(p)], Tail(p))

\* t with the subtree at position p replaced by u, all else as it was.
RECURSIVE ReplaceAt(_, _, _)
ReplaceAt(t, p, u) ==
  IF p = << >> THEN u
  ELSE [t EXCEPT !.children[Head(p)] = ReplaceAt(@, Tail(p), u)]

ParentPath(p) == SubSeq(p, 1, Len(p) - 1)
LastIndex(p) == p[Len(p)]

\* Ids that are payloads of a command: those generateId returns and one
\* that it never returns.
PayloadIds == Ids \cup {MaxRandom + MaxNow + 1}

\* The values reducer can return for ADDED(id) on state.
AddedResults(state, id) ==
  {reducer(state, Added(id), gens) : gens \in [1..Calls(state, id) -> Ids]}

\* seq without its element at index i.
RemoveIndex(seq, i) == SubSeq(seq, 1, i - 1) \o SubSeq(seq, i + 1, Len(seq))

\* seq with e put right after its element at index i.
InsertAfter(seq, i, e) == SubSeq(seq, 1, i) \o <<e>> \o SubSeq(seq, i + 1, Len(seq))

\* seq with its elements at i and j exchanged.
Swap(seq, i, j) == [seq EXCEPT ![i] = seq[j], ![j] = seq[i]]

\* The positions of the nodes below the root.
ChildPaths(t) == Paths(t) \ {<< >>}

(* ------------------------------ claims -------------------------------- *)

\* C1: a command whose payload id is the id of no node of the snapshot
\* leaves the snapshot as it is (tree shape, ids, texts, child order and
\* version), whatever the command, and the reducer returns normally.
C1_AbsentIdIsNoOp ==
  \A id \in PayloadIds \ IdsOf(data.tree) :
    /\ \A text \in Texts : reducer(data, TextChanged(id, text), << >>) = data
    /\ reducer(data, Added(id), << >>) = data
    /\ reducer(data, Removed(id), << >>) = data
    /\ reducer(data, MoveUp(id), << >>) = data
    /\ reducer(data, MoveDown(id), << >>) = data

\* A snapshot with nested children and an id that generateId can return
\* but no node carries, on which the five commands change nothing.
C1_Witness ==
  /\ \E p \in Paths(data.tree) : Len(p) = 2
  /\ \E id \in Ids \ IdsOf(data.tree) :
       /\ reducer(data, TextChanged(id, "a"), << >>) = data
       /\ reducer(data, Removed(id), << >>) = data
       /\ reducer(data, Added(id), << >>) = data
       /\ reducer(data, MoveUp(id), << >>) = data
       /\ reducer(data, MoveDown(id), << >>) = data

\* The results of the four structural commands aimed at the root's id.
RootResults ==
  {reducer(data, MoveUp(data.tree.id), << >>),
   reducer(data, MoveDown(data.tree.id), << >>),
   reducer(data, Removed(data.tree.id), << >>)}
  \cup AddedResults(data, data.tree.id)

\* C2: ADDED, REMOVED, MOVE_UP and MOVE_DOWN aimed at the root are no-ops
\* on a snapshot (ids pairwise distinct, as the data model requires), and in
\* every state, whatever its ids, the root stays the root: its id and text
\* are those it had.
C2_RootCommandsAreNoOps ==
  /\ UniqueIds(data.tree) => \A r \in RootResults : r = data
  /\ \A r \in RootResults : r.tree.id = data.tree.id /\ r.tree.text = data.tree.text

\* A snapshot whose root has three children, on which the four commands
\* aimed at the root change nothing.
C2_Witness ==
  /\ UniqueIds(data.tree)
  /\ Len(ChildrenOf(data.tree)) = 3
  /\ RootResults = {data}

\* C3: on a snapshot, REMOVED aimed at a node x below the root takes x out
\* of its parent's children and changes nothing else: the parent has one
\* child less, the other children are in the order they were, no id of x's
\* subtree is left in the tree, and the version is the same.
C3_RemovedDeletesSubtree ==
  UniqueIds(data.tree) =>
    \A p \in ChildPaths(data.tree) :
      LET x == NodeAt(data.tree, p)
          q == ParentPath(p)
          i == LastIndex(p)
          par == NodeAt(data.tree, q)
          r == reducer(data, Removed(x.id), << >>)
      IN /\ r.version = data.version
         /\ r.tree = ReplaceAt(data.tree, q, [par EXCEPT !.children = RemoveIndex(@, i)])
         /\ Len(NodeAt(r.tree, q).children) = Len(par.children) - 1
         /\ IdsOf(r.tree) \cap IdsOf(x) = {}
         /\ Size(r.tree) = Size(data.tree) - Size(x)

\* A snapshot in which a node with a child of its own and a sibling is
\* removed: its subtree is gone and the sibling is left.
C3_Witness ==
  /\ UniqueIds(data.tree)
  /\ \E p \in ChildPaths(data.tree) :
       LET x == NodeAt(data.tree, p)
           par == NodeAt(data.tree, ParentPath(p))
           r == reducer(data, Removed(x.id), << >>)
       IN /\ Len(ChildrenOf(x)) >= 1
          /\ Len(par.children) >= 2
          /\ Size(r.tree) = Size(data.tree) - Size(x)
          /\ Len(NodeAt(r.tree, ParentPath(p)).children) = Len(par.children) - 1

\* C4: on a snapshot, ADDED aimed at a node x below the root puts one new
\* node, with the generated id, the empty text and no children, right after
\* x in its parent's children and changes nothing else: the parent has one
\* child more and the former children are in the order they were.
C4_AddedInsertsAfterTarget ==
  UniqueIds(data.tree) =>
    \A p \in ChildPaths(data.tree) : \A g \in Ids :
      LET x == NodeAt(data.tree, p)
          q == ParentPath(p)
          i == LastIndex(p)
          par == NodeAt(data.tree, q)
          r == reducer(data, Added(x.id), <<g>>)
          new == [id |-> g, text |-> ""]
      IN /\ r.version = data.version
         /\ r.tree = ReplaceAt(data.tree, q, [par EXCEPT !.children = InsertAfter(@, i, new)])
         /\ Len(NodeAt(r.tree, q).children) = Len(par.children) + 1
         /\ NodeAt(r.tree, q).children[i + 1] = new
         /\ RemoveIndex(NodeAt(r.tree, q).children, i + 1) = par.children
         /\ Size(r.tree) = Size(data.tree) + 1

\* A snapshot in which the first of two children gets a new sibling with an
\* id no node carries yet, which lands between the two.
C4_Witness ==
  /\ UniqueIds(data.tree)
  /\ \E p \in ChildPaths(data.tree) : \E g \in Ids \ IdsOf(data.tree) :
       LET x == NodeAt(data.tree, p)
           par == NodeAt(data.tree, ParentPath(p))
           r == reducer(data, Added(x.id), <<g>>)
           kids == NodeAt(r.tree, ParentPath(p)).children
       IN /\ Len(par.children) = 2
          /\ LastIndex(p) = 1
          /\ kids = << x, [id |-> g, text |-> ""], par.children[2] >>
          /\ UniqueIds(r.tree)

\* C5: on a snapshot, MOVE_UP aimed at the child at index i of its parent
\* changes nothing when the child is the first one, and otherwise exchanges
\* it with the child before it: every other child keeps its index, the
\* subtrees are as they were and nothing else changes.
C5_MoveUpSwapsWithPrevious ==
  UniqueIds(data.tree) =>
    \A p \in ChildPaths(data.tree) :
      LET x == NodeAt(data.tree, p)
          q == ParentPath(p)
          i == LastIndex(p)
          par == NodeAt(data.tree, q)
          r == reducer(data, MoveUp(x.id), << >>)
      IN IF i = 1 THEN r = data
         ELSE /\ r.version = data.version
              /\ r.tree = ReplaceAt(data.tree, q, [par EXCEPT !.children = Swap(@, i - 1, i)])
              /\ NodeAt(r.tree, q).children[i - 1] = x
              /\ NodeAt(r.tree, q).children[i] = par.children[i - 1]
              /\ \A k \in 1..Len(par.children) \ {i - 1, i} :
                   NodeAt(r.tree, q).children[k] = par.children[k]

\* A snapshot in which the last of three children moves up: it is second
\* afterwards, the second is last and the first stays first.
C5_Witness ==
  /\ UniqueIds(data.tree)
  /\ \E p \in ChildPaths(data.tree) :
       LET x == NodeAt(data.tree, p)
           par == NodeAt(data.tree, ParentPath(p))
           r == reducer(data, MoveUp(x.id), << >>)
           kids == NodeAt(r.tree, ParentPath(p)).children
       IN /\ Len(par.children) = 3
          /\ LastIndex(p) = 3
          /\ kids = << par.children[1], x, par.children[2] >>

\* C6: on a snapshot, MOVE_DOWN aimed at the child at index i of n changes
\* nothing when the child is the last one, and otherwise exchanges it with
\* the child after it: every other child keeps its index, the subtrees are
\* as they were and nothing else changes.
C6_MoveDownSwapsWithNext ==
  UniqueIds(data.tree) =>
    \A p \in ChildPaths(data.tree) :
      LET x == NodeAt(data.tree, p)
          q == ParentPath(p)
          i == LastIndex(p)
          par == NodeAt(data.tree, q)
          r == reducer(data, MoveDown(x.id), << >>)
      IN IF i = Len(par.children) THEN r = data
         ELSE /\ r.version = data.version
              /\ r.tree = ReplaceAt(data.tree, q, [par EXCEPT !.children = Swap(@, i, i + 1)])
              /\ NodeAt(r.tree, q).children[i + 1] = x
              /\ NodeAt(r.tree, q).children[i] = par.children[i + 1]
              /\ \A k \in 1..Len(par.children) \ {i, i + 1} :
                   NodeAt(r.tree, q).children[k] = par.children[k]

\* A snapshot in which the first of three children moves down: it is
\* second afterwards, the second is first and the third stays third.
C6_Witness ==
  /\ UniqueIds(data.tree)
  /\ \E p \in ChildPaths(data.tree) :
       LET x == NodeAt(data.tree, p)
           par == NodeAt(data.tree, ParentPath(p))
           r == reducer(data, MoveDown(x.id), << >>)
           kids == NodeAt(r.tree, ParentPath(p)).children
       IN /\ Len(par.children) = 3
          /\ LastIndex(p) = 1
          /\ kids = << par.children[2], x, par.children[3] >>

\* C7: on a snapshot, TEXT_CHANGED aimed at a node, the root included, gives
\* the node the new text and changes nothing else: shape, child order, ids,
\* the other texts and the version are as they were. The reducer of the
\* rename-only editor does the same.
C7_TextChangedRenamesOnlyTarget ==
  UniqueIds(data.tree) =>
    \A p \in Paths(data.tree) : \A text \in Texts :
      LET x == NodeAt(data.tree, p)
          expected == [version |-> data.version,
                       tree |-> ReplaceAt(data.tree, p, [x EXCEPT !.text = text])]
      IN /\ reducer(data, TextChanged(x.id, text), << >>) = expected
         /\ renameReducer(data, TextChanged(x.id, text)) = expected
         /\ NodeAt(expected.tree, p).text = text
         /\ IdSeq(expected.tree) = IdSeq(data.tree)

\* A snapshot in which a node below the root, with a child of its own and
\* a sibling, gets another text, and its child and sibling keep theirs.
C7_Witness ==
  /\ UniqueIds(data.tree)
  /\ \E p \in ChildPaths(data.tree) :
       LET x == NodeAt(data.tree, p)
           par == NodeAt(data.tree, ParentPath(p))
           r == reducer(data, TextChanged(x.id, "a"), << >>)
       IN /\ x.text = ""
          /\ Len(ChildrenOf(x)) >= 1
          /\ Len(par.children) >= 2
          /\ NodeAt(r.tree, p) = [x EXCEPT !.text = "a"]
          /\ r.tree.text = data.tree.text

\* C8: in every snapshot reached from the seed data, the ids of the tree
\* are pairwise distinct, and an id that generateId gives to a node made by
\* ADDED is the id of no node already in the tree.
C8_IdsPairwiseDistinct ==
  /\ UniqueIds(data.tree)
  /\ \A id \in IdsOf(data.tree) : \A r \in AddedResults(data, id) :
       UniqueIds(r.tree)

\* C9: on a snapshot, MOVE_UP and then MOVE_DOWN of a child that is not the
\* first gives the snapshot back, and so does MOVE_DOWN and then MOVE_UP of
\* a child that is not the last.
C9_MoveUpThenDownRestores ==
  UniqueIds(data.tree) =>
    \A p \in ChildPaths(data.tree) :
      LET x == NodeAt(data.tree, p)
          i == LastIndex(p)
          n == Len(NodeAt(data.tree, ParentPath(p)).children)
      IN /\ i > 1 =>
              reducer(reducer(data, MoveUp(x.id), << >>), MoveDown(x.id), << >>) = data
         /\ i < n =>
              reducer(reducer(data, MoveDown(x.id), << >>), MoveUp(x.id), << >>) = data

\* A snapshot in which the middle one of three children moves up and down
\* again, and down and up again: each first move changes the order, each
\* second one restores it.
C9_Witness ==
  /\ UniqueIds(data.tree)
  /\ \E p \in ChildPaths(data.tree) :
       LET x == NodeAt(data.tree, p)
           up == reducer(data, MoveUp(x.id), << >>)
           down == reducer(data, MoveDown(x.id), << >>)
       IN /\ Len(NodeAt(data.tree, ParentPath(p)).children) = 3
          /\ LastIndex(p) = 2
          /\ up # data
          /\ down # data
          /\ reducer(up, MoveDown(x.id), << >>) = data
          /\ reducer(down, MoveUp(x.id), << >>) = data

\* C10: TEXT_CHANGED(id, t) applied twice gives what it gives applied once,
\* for every id and text, whether or not a node carries the id.
C10_RenameIdempotent ==
  \A id \in PayloadIds : \A text \in Texts :
    LET once == reducer(data, TextChanged(id, text), << >>)
    IN reducer(once, TextChanged(id, text), << >>) = once

\* A rename that changes the snapshot and, applied again, changes nothing.
C10_Witness ==
  \E id \in IdsOf(data.tree) : \E text \in Texts :
    LET once == reducer(data, TextChanged(id, text), << >>)
    IN /\ once # data
       /\ reducer(once, TextChanged(id, text), << >>) = once

\* The objects of heap before are in heap after what they were in before.
BaseIntact(before, after) ==
  /\ SubSeq(after.nodes, 1, Len(before.nodes)) = before.nodes
  /\ SubSeq(after.arrays, 1, Len(before.arrays)) = before.arrays

\* The commands aimed at id with the values their generateId calls return.
Commands(state, id) ==
  {<<TextChanged(id, text), << >> >> : text \in Texts}
  \cup {<<MoveUp(id), << >> >>, <<MoveDown(id), << >> >>, <<Removed(id), << >> >>}
  \cup {<<Added(id), gens>> : gens \in [1..Calls(state, id) -> Ids]}

\* C11: a command leaves the objects of the snapshot it is applied to as
\* they were: after reducer's produce call, and after updateTreeInner and
\* updateTree of the spread-based editor, every node object and array object
\* of the input holds the id, text and children it held, and the input read
\* again is the same tree, also when the command replaces or splices a
\* children array during the traversal.
C11_InputSnapshotNotMutated ==
  /\ LET base == Alloc(EmptyHeap(<< >>), data.tree)
     IN \A text \in Texts :
          /\ \A id \in PayloadIds :
               LET r == updateTreeInner(base.h, base.a, id, text)
               IN BaseIntact(base.h, r.h) /\ ToTree(r.h, base.a) = data.tree
          /\ \A p \in Paths(data.tree) :
               LET r == spreadUpdateTree(base.h, AddrAt(base.h, base.a, p), text)
               IN BaseIntact(base.h, r.h) /\ ToTree(r.h, base.a) = data.tree
  /\ \A id \in IdsOf(data.tree) : \A c \in Commands(data, id) :
       LET r == produce(data, c[1], c[2])
       IN /\ BaseIntact(r.base.h, r.h)
          /\ ToTree(r.h, r.base.a) = data.tree
          /\ ToTree(r.h, r.a) = reducer(data, c[1], c[2]).tree

\* A snapshot with a node two levels below the root on which REMOVED of that
\* node (a splice during the traversal), MOVE_UP of a second child (a
\* replaced array) and the spread-based rename of the root each give another
\* tree while the input's objects still read as the input.
C11_Witness ==
  /\ \E p \in ChildPaths(data.tree) :
       LET r == produce(data, Removed(NodeAt(data.tree, p).id), << >>)
       IN /\ Len(p) = 2
          /\ ToTree(r.h, r.a) # data.tree
          /\ ToTree(r.h, r.base.a) = data.tree
  /\ \E p \in ChildPaths(data.tree) :
       LET r == produce(data, MoveUp(NodeAt(data.tree, p).id), << >>)
       IN /\ LastIndex(p) = 2
          /\ ToTree(r.h, r.a) # data.tree
          /\ ToTree(r.h, r.base.a) = data.tree
  /\ LET base == Alloc(EmptyHeap(<< >>), data.tree)
         r == spreadUpdateTree(base.h, base.a, "a")
     IN /\ ToTree(r.h, r.a) # data.tree
        /\ ToTree(r.h, base.a) = data.tree

\* The id whose string form is s.
IdOfString(s) == CHOOSE i \in PayloadIds : ToString(i) = s

\* tokens without the comma at their end, if there is one.
StripComma(tokens) ==
  IF tokens # << >> /\ tokens[Len(tokens)] = Punct(",")
  THEN SubSeq(tokens, 1, Len(tokens) - 1)
  ELSE tokens

\* The string literal of a line "key": "value".
ValueOf(line) == StripComma(line.tokens)[3][2]

RECURSIVE parseTree(_, _)
RECURSIVE parseArray(_, _, _)

\* The Tree read from the JSON object that begins at lines[pos], and the
\* index of the line after it. Indentation carries no information.
parseTree(lines, pos) ==
  LET id == IdOfString(ValueOf(lines[pos + 1]))
      text == ValueOf(lines[pos + 2])
      third == StripComma(lines[pos + 3].tokens)
  IN IF third = <<Punct("}")>>
     THEN [tree |-> [id |-> id, text |-> text], next |-> pos + 4]
     ELSE IF third = <<Key("children"), Punct(":"), Punct("["), Punct("]")>>
     THEN [tree |-> [id |-> id, text |-> text, children |-> << >>], next |-> pos + 5]
     ELSE LET r == parseArray(lines, pos + 4, << >>)
          IN [tree |-> [id |-> id, text |-> text, children |-> r.trees],
              next |-> r.next + 1]

\* The Trees read from the elements that begin at lines[pos], up to the
\* line of the closing bracket, and the index of the line after that.
parseArray(lines, pos, acc) ==
  IF StripComma(lines[pos].tokens) = <<Punct("]")>>
  THEN [trees |-> acc, next |-> pos + 1]
  ELSE LET r == parseTree(lines, pos)
       IN parseArray(lines, r.next, Append(acc, r.tree))

\* The Data a reader of the exported text gets.
parse(lines) == [version |-> ValueOf(lines[2]), tree |-> parseTree(lines, 3).tree]

\* C12: whenever Copy has just written a text, after whatever commands, the
\* text is the serialization of the snapshot the editor holds now, and read
\* back it has the version, the shape, the child order, the ids and the
\* texts of that snapshot; the closure of handleCopy never holds an earlier
\* snapshot.
C12_CopyExportsCurrentSnapshot ==
  /\ captured = data
  /\ written # << >> =>
       /\ written = stringify(data)
       /\ parse(written) = data

\* Copy has written a snapshot that commands have made: a node has been
\* renamed, a node two levels down is there and a node has lost all its
\* children; the text read back is that snapshot.
C12_Witness ==
  /\ written # << >>
  /\ \E p \in Paths(data.tree) : NodeAt(data.tree, p).text = "a"
  /\ \E p \in Paths(data.tree) : Len(p) = 2
  /\ \E p \in Paths(data.tree) :
       HasChildren(NodeAt(data.tree, p)) /\ NodeAt(data.tree, p).children = << >>
  /\ parse(written) = data

\* The text contents of the elements TreeView renders for tree: the labels
\* of its four buttons, and what the TreeViews of its children render.
RECURSIVE TreeViewTexts(_)
TreeViewTexts(tree) ==
  {"↑", "↓", "+", "-"}
  \cup UNION {TreeViewTexts(ChildrenOf(tree)[k]) : k \in 1..Len(ChildrenOf(tree))}

\* The values of the input fields TreeView renders for tree.
RECURSIVE TreeViewValues(_)
TreeViewValues(tree) ==
  {tree.text}
  \cup UNION {TreeViewValues(ChildrenOf(tree)[k]) : k \in 1..Len(ChildrenOf(tree))}

\* The text contents of the elements App renders for d.
AppTexts(d) == TreeViewTexts(d.tree) \cup {"Copy"}

\* getByText(/Hello, world/i) on one text: of the texts an element of this
\* model can have, those that contain the pattern's text in some case.
MatchesHelloWorld(text) ==
  text \in {"Hello, world", "hello, world", "HELLO, WORLD", "Hello, world!"}

\* data is the seed, no command applied.
IsSeed(d) ==
  \E i0 \in Ids, i1 \in Ids, i2 \in Ids, i3 \in Ids : d = initialData(i0, i1, i2, i3)

\* C13: with the seed as data, App shows an element whose text matches
\* 'Hello, world', be it an element's text content or an input's value.
C13_SeedShowsHelloWorld ==
  IsSeed(data) =>
    \E text \in AppTexts(data) \cup TreeViewValues(data.tree) : MatchesHelloWorld(text)

\* C14: every node that carries the id of a command is affected by it, also
\* when several nodes carry it and when they are adjacent siblings: after
\* TEXT_CHANGED each has the new text, after REMOVED none is left below the
\* root, ADDED makes one node for each, and a matching child that stands
\* after (before) a child with another id stands one place earlier (later)
\* after MOVE_UP (MOVE_DOWN).
C14_EveryMatchIsAffected ==
  \A id \in IdsOf(data.tree) :
    /\ \A text \in Texts :
         LET r == reducer(data, TextChanged(id, text), << >>)
         IN \A p \in Paths(r.tree) : NodeAt(r.tree, p).id = id => NodeAt(r.tree, p).text = text
    /\ LET r == reducer(data, Removed(id), << >>)
       IN \A k \in 2..Size(r.tree) : IdSeq(r.tree)[k] # id
    /\ \A r \in AddedResults(data, id) : Size(r.tree) = Size(data.tree) + Calls(data, id)
    /\ \A q \in Paths(data.tree) :
         LET c == ChildrenOf(NodeAt(data.tree, q))
             up == ChildrenOf(NodeAt(reducer(data, MoveUp(id), << >>).tree, q))
             down == ChildrenOf(NodeAt(reducer(data, MoveDown(id), << >>).tree, q))
         IN \A i \in 1..Len(c) :
              /\ (i > 1 /\ c[i].id = id /\ c[i - 1].id # id) => up[i - 1] = c[i]
              /\ (i < Len(c) /\ c[i].id = id /\ c[i + 1].id # id) => down[i + 1] = c[i]

\* C15: on a snapshot, for every node of it as the rename target, the root
\* or another, handleChange of the spread-based editor and TEXT_CHANGED of
\* reducer give the same snapshot.
C15_SpreadRenameEqualsImmerRename ==
  UniqueIds(data.tree) =>
    \A p \in Paths(data.tree) : \A text \in Texts :
      spreadHandleChange(data, p, text)
        = reducer(data, TextChanged(NodeAt(data.tree, p).id, text), << >>)

\* t with every empty children array left out, as if never given.
RECURSIVE WithoutEmpty(_)
WithoutEmpty(t) ==
  IF ChildrenOf(t) = << >> THEN [id |-> t.id, text |-> t.text]
  ELSE [id |-> t.id, text |-> t.text,
        children |-> [k \in 1..Len(t.children) |-> WithoutEmpty(t.children[k])]]

\* C16: a snapshot and the snapshot that differs from it only in having no
\* children field where it has an empty children array are equivalent for
\* every operation: each command gives results that differ at most in that
\* way, and the exported texts of the two are the same.
C16_AbsentAndEmptyChildrenEquivalent ==
  LET other == [data EXCEPT !.tree = WithoutEmpty(@)]
  IN /\ \A id \in PayloadIds : \A c \in Commands(data, id) :
          WithoutEmpty(reducer(data, c[1], c[2]).tree)
            = WithoutEmpty(reducer(other, c[1], c[2]).tree)
     /\ copyToClipboard(data) = copyToClipboard(other)

\* C16, amended: the two snapshots are equivalent for every command, each
\* giving results that differ at most in that way; their exported texts are
\* the same only when the snapshots are, an empty children array being
\* written as "children": [] and an absent field left out.
C16_CommandsTreatAbsentAsEmpty ==
  LET other == [data EXCEPT !.tree = WithoutEmpty(@)]
  IN /\ \A id \in PayloadIds : \A c \in Commands(data, id) :
          WithoutEmpty(reducer(data, c[1], c[2]).tree)
            = WithoutEmpty(reducer(other, c[1], c[2]).tree)
     /\ copyToClipboard(data) = copyToClipboard(other) <=> data = other

\* A snapshot in which a node below the root has an empty children array
\* and a sibling: with and without that array, removing the sibling and
\* renaming the node give results that differ only in the array, and the
\* exported texts differ.
C16_Witness ==
  LET other == [data EXCEPT !.tree = WithoutEmpty(@)]
  IN \E p \in ChildPaths(data.tree) :
       LET x == NodeAt(data.tree, p)
           par == NodeAt(data.tree, ParentPath(p))
       IN /\ HasChildren(x) /\ x.children = << >>
          /\ Len(par.children) >= 2
          /\ \E k \in 1..Len(par.children) :
               LET r1 == reducer(data, Removed(par.children[k].id), << >>)
                   r2 == reducer(other, Removed(par.children[k].id), << >>)
               IN k # LastIndex(p) /\ r1 # data /\ r1 # r2
                  /\ WithoutEmpty(r1.tree) = r2.tree
          /\ reducer(data, TextChanged(x.id, "a"), << >>)
               # reducer(other, TextChanged(x.id, "a"), << >>)
          /\ copyToClipboard(data) # copyToClipboard(other)

\* C17: an id is never used again and never changed: once REMOVED has taken
\* the nodes with id x out of the tree, no ADDED after it gives x to the
\* node it makes, and a rename or a move leaves the ids of the tree, in
\* pre-order, as they were up to the order of siblings. The first part is
\* stated for trees whose ids are pairwise distinct.
C17_IdsNeverReused ==
  /\ \A x \in {y \in IdsOf(data.tree) : UniqueIds(data.tree)} :
       LET removed == reducer(data, Removed(x), << >>)
       IN x \notin IdsOf(removed.tree) =>
            \A id \in IdsOf(removed.tree) : \A r \in AddedResults(removed, id) :
              x \notin IdsOf(r.tree)
  /\ \A id \in IdsOf(data.tree) :
       /\ \A text \in Texts :
            IdSeq(reducer(data, TextChanged(id, text), << >>).tree) = IdSeq(data.tree)
       /\ IdsOf(reducer(data, MoveUp(id), << >>).tree) = IdsOf(data.tree)
       /\ IdsOf(reducer(data, MoveDown(id), << >>).tree) = IdsOf(data.tree)

\* C18: in every snapshot reached from the seed, every node below the root
\* is a child of the root and has no children, not even an empty array: no
\* command gives a child to a node that has none.
C18_DepthNeverGrows ==
  \A p \in ChildPaths(data.tree) :
    Len(p) = 1 /\ ~HasChildren(NodeAt(data.tree, p))

\* A snapshot reached from the seed by ADDED and REMOVED: a child made by
\* ADDED stands among children of the seed, one of which is gone, and every
\* ADDED aimed at a child leaves all nodes below the root leaves.
C18_Witness ==
  /\ Len(ChildrenOf(data.tree)) = 3
  /\ \E k \in 1..3 : data.tree.children[k].text = ""
  /\ \E k \in 1..3 : data.tree.children[k].text = "child-3"
  /\ \A k \in 1..3 : data.tree.children[k].text # "child-1"
  /\ \A id \in IdsOf(data.tree) : \A r \in AddedResults(data, id) :
       \A p \in ChildPaths(r.tree) : Len(p) = 1 /\ ~HasChildren(NodeAt(r.tree, p))

\* C19: once the root has no children left the tree stays that way: every
\* step from a snapshot of one node leads to a snapshot of one node that
\* differs from it at most in the root's text.
C19_RootOnlyIsDeadEnd ==
  [][Size(data.tree) = 1 =>
       /\ Size(data'.tree) = 1
       /\ [data' EXCEPT !.tree.text = data.tree.text] = data]_vars

\* A snapshot reached from the seed by removing all children, the root
\* renamed, on which no command aimed at the root adds a node.
C19_Witness ==
  /\ Size(data.tree) = 1
  /\ HasChildren(data.tree)
  /\ data.tree.text = "a"
  /\ \A c \in Commands(data, data.tree.id) : Size(reducer(data, c[1], c[2]).tree) = 1

\* C20: on a snapshot (ids pairwise distinct), ADDED aimed at a node below
\* the root and then REMOVED aimed at the id of the node ADDED made give the
\* snapshot back, whatever id generateId returned.
C20_AddedThenRemovedIsIdentity ==
  UniqueIds(data.tree) =>
    \A p \in ChildPaths(data.tree) : \A g \in Ids :
      LET added == reducer(data, Added(NodeAt(data.tree, p).id), <<g>>)
      IN reducer(added, Removed(g), << >>) = data

====
